---- MODULE Spec2Model ----
(***************************************************************************)
(* Model of kernel/arch/i386/genisr.py, the script that writes isr.asm:    *)
(* the entry stubs of the first 32 interrupt vectors.                      *)
(*                                                                         *)
(* The script is straight-line code over one file handle.  Every          *)
(* statement that touches the handle is one action; pc names the           *)
(* statement about to run.  The file on disk is a string of bytes, and     *)
(* of.write(s) appends s to it.  open() and write() may raise OSError;     *)
(* the script has no handler, so an exception ends the run.                *)
(***************************************************************************)
EXTENDS Integers, Sequences, FiniteSets, TLC

VARIABLES
    pc,     \* the statement about to run (lines 5-44), or "done" / "raised"
    of,     \* the handle bound to `of` (line 5): "unopened", "open", "closed"
    file,   \* the bytes of isr.asm on disk
    it,     \* how many items the current range(32) iterator has yielded
    i,      \* the loop variable (lines 10, 16); unbound, here 0, before a loop
    run,    \* which invocation of the script this is
    docs    \* the contents of isr.asm left by each run that reached close()

vars == <<pc, of, file, it, i, run, docs>>

-----------------------------------------------------------------------------
(* Bounds *)

\* number of times the script is invoked, one after the other
MaxRuns == 2

\* what isr.asm may hold before the first run ("" also stands for no file)
PriorContents == {"", "stale\n", "global isr0\nisr0:\n    jmp isr_common_stub\n"}

-----------------------------------------------------------------------------
(* Text produced by the script *)

Digit(d) ==
    CASE d = 0 -> "0" [] d = 1 -> "1" [] d = 2 -> "2" [] d = 3 -> "3"
      [] d = 4 -> "4" [] d = 5 -> "5" [] d = 6 -> "6" [] d = 7 -> "7"
      [] d = 8 -> "8" [] d = 9 -> "9"

\* f"{i}" for a non-negative int: its decimal digits, no padding
RECURSIVE FormatInt(_)
FormatInt(n) ==
    IF n < 10 THEN Digit(n) ELSE FormatInt(n \div 10) \o Digit(n % 10)

\* range(32) of the declaration loop and of the stub loop
DeclRange == 32
StubRange == 32

\* variant: vector 14 left out of the list
eisr_Short == <<8, 10, 11, 12, 13>>

\* eisr = [8, 10, 11, 12, 13, 14]
eisr == <<8, 10, 11, 12, 13, 14>>

\* variant: a range test in place of the list, which takes in vector 9
InEisr_Range(n) == n \in 8..14

\* i in eisr
InEisr(n) == \E k \in 1..Len(eisr) : eisr[k] = n

Header1 == "; A bunch of Interrupt Service Routines (ISRs)\n"
Header2 == "; For info on each ISR see isr.md in Documentation\n"
\* variant: only the last digit of the index is written
GlobalLine_Units(n) == "global isr" \o Digit(n % 10) \o "\n"
\* variant: the declarations count down
GlobalLine_Rev(n) == "global isr" \o FormatInt(31 - n) \o "\n"
GlobalLine(n) == "global isr" \o FormatInt(n) \o "\n"
DefsHeader == "\n; ISR definitions\n"

\* the i == 0 branch
Zero1 == "\n; Divide by 0\n"
Zero2 == "    cli ; Disable interrupts\n"
\* variant: the dummy push of vector 0 reduced to its comment
Zero3_Comment == "    ; push a dummy error code\n"
Zero3 == "    push byte 0 ; push a dummy error code\n"
Zero4 == "    push byte 0 ; push the isr code\n"
Zero5 == "    jmp_isr_common_stub\n"

\* the i == 8 branch
Eight1 == "\n; Double Fault Exception\n"
Eight2 == "    cli ; Disable interrupts\n"
Eight3 == "    ; We don't push a dummy error code since this interrupt comes with one\n"
Eight4 == "    push byte 0 ; push the isr code\n"
Eight5 == "    jmp_isr_common_stub\n"

\* the uniform template
Blank == "\n"
\* variant: the label is off by one
LabelLine_Off(n) == "isr" \o FormatInt(n + 1) \o ":\n"
LabelLine(n) == "isr" \o FormatInt(n) \o ":\n"
Cli == "    cli\n"
DummyPush == "    push byte 0\n"
\* variant: the vector number pushed is off by one
VectorPush_Next(n) == "    push byte " \o FormatInt(n + 1) \o "\n"
VectorPush(n) == "    push byte " \o FormatInt(n) \o "\n"
Jmp == "    jmp isr_common_stub\n"

-----------------------------------------------------------------------------
(* The file handle *)

\* variant: mode "a", which keeps what the file held
OpenW_Append(old) == old

\* open(name, "w"): an existing file is truncated to nothing
OpenW(old) == ""

\* of.write(s) then continue at `next`; or OSError, which nothing catches
Write(s, next) ==
    /\ of = "open"
    /\ \/ /\ file' = file \o s
          /\ pc' = next
       \/ /\ file' = file
          /\ pc' = "raised"
    /\ UNCHANGED <<of, run, docs>>

-----------------------------------------------------------------------------
(* The script, statement by statement *)

Init ==
    /\ pc = "open"
    /\ of = "unopened"
    /\ file \in PriorContents
    /\ it = 0
    /\ i = 0
    /\ run = 1
    /\ docs = <<>>

\* of = open("isr.asm", "w")
Open ==
    /\ pc = "open"
    /\ \/ /\ of' = "open"
          /\ file' = OpenW(file)
          /\ pc' = "header1"
       \/ /\ of' = of
          /\ file' = file
          /\ pc' = "raised"
    /\ UNCHANGED <<it, i, run, docs>>

WriteHeader1 ==
    /\ pc = "header1"
    /\ Write(Header1, "header2")
    /\ UNCHANGED <<it, i>>

WriteHeader2 ==
    /\ pc = "header2"
    /\ Write(Header2, "declfor")
    /\ it' = 0
    /\ i' = i

\* for i in range(32):   (declarations)
DeclFor ==
    /\ pc = "declfor"
    /\ IF it < DeclRange
         THEN /\ i' = it
              /\ it' = it + 1
              /\ pc' = "declwrite"
         ELSE /\ UNCHANGED <<i, it>>
              /\ pc' = "defsheader"
    /\ UNCHANGED <<of, file, run, docs>>

WriteGlobal ==
    /\ pc = "declwrite"
    /\ Write(GlobalLine(i), "declfor")
    /\ UNCHANGED <<it, i>>

WriteDefsHeader ==
    /\ pc = "defsheader"
    /\ Write(DefsHeader, "stubfor")
    /\ it' = 0
    /\ i' = i

\* for i in range(32):   (stubs), with the two `if` tests that follow
StubFor ==
    /\ pc = "stubfor"
    /\ IF it < StubRange
         THEN /\ i' = it
              /\ it' = it + 1
              /\ pc' = IF it = 0 THEN "zero1"
                       ELSE IF it = 8 THEN "eight1"
                       ELSE "blank"
         ELSE /\ UNCHANGED <<i, it>>
              /\ pc' = "close"
    /\ UNCHANGED <<of, file, run, docs>>

WriteZero1 == pc = "zero1" /\ Write(Zero1, "zero2") /\ UNCHANGED <<it, i>>
WriteZero2 == pc = "zero2" /\ Write(Zero2, "zero3") /\ UNCHANGED <<it, i>>
WriteZero3 == pc = "zero3" /\ Write(Zero3, "zero4") /\ UNCHANGED <<it, i>>
WriteZero4 == pc = "zero4" /\ Write(Zero4, "zero5") /\ UNCHANGED <<it, i>>
WriteZero5 == pc = "zero5" /\ Write(Zero5, "stubfor") /\ UNCHANGED <<it, i>>

WriteEight1 == pc = "eight1" /\ Write(Eight1, "eight2") /\ UNCHANGED <<it, i>>
WriteEight2 == pc = "eight2" /\ Write(Eight2, "eight3") /\ UNCHANGED <<it, i>>
WriteEight3 == pc = "eight3" /\ Write(Eight3, "eight4") /\ UNCHANGED <<it, i>>
WriteEight4 == pc = "eight4" /\ Write(Eight4, "eight5") /\ UNCHANGED <<it, i>>
WriteEight5 == pc = "eight5" /\ Write(Eight5, "stubfor") /\ UNCHANGED <<it, i>>

WriteBlank == pc = "blank" /\ Write(Blank, "label") /\ UNCHANGED <<it, i>>
WriteLabel == pc = "label" /\ Write(LabelLine(i), "cli") /\ UNCHANGED <<it, i>>

\* of.write("    cli\n") and the test `if i not in eisr`
WriteCli ==
    /\ pc = "cli"
    /\ Write(Cli, IF InEisr(i) THEN "vector" ELSE "dummy")
    /\ UNCHANGED <<it, i>>

WriteDummy == pc = "dummy" /\ Write(DummyPush, "vector") /\ UNCHANGED <<it, i>>
WriteVector == pc = "vector" /\ Write(VectorPush(i), "jmp") /\ UNCHANGED <<it, i>>
WriteJmp == pc = "jmp" /\ Write(Jmp, "stubfor") /\ UNCHANGED <<it, i>>

\* of.close()
Close ==
    /\ pc = "close"
    /\ of = "open"
    /\ of' = "closed"
    /\ docs' = Append(docs, file)
    /\ pc' = "done"
    /\ UNCHANGED <<file, it, i, run>>

\* the script is invoked again, in a new process: on the file the last run
\* left, or on whatever has replaced it since
Rerun ==
    /\ pc \in {"done", "raised"}
    /\ run < MaxRuns
    /\ run' = run + 1
    /\ pc' = "open"
    /\ of' = "unopened"
    /\ it' = 0
    /\ i' = 0
    /\ file' \in PriorContents \cup {file}
    /\ docs' = docs

Next ==
    \/ Open \/ WriteHeader1 \/ WriteHeader2
    \/ DeclFor \/ WriteGlobal \/ WriteDefsHeader
    \/ StubFor
    \/ WriteZero1 \/ WriteZero2 \/ WriteZero3 \/ WriteZero4 \/ WriteZero5
    \/ WriteEight1 \/ WriteEight2 \/ WriteEight3 \/ WriteEight4 \/ WriteEight5
    \/ WriteBlank \/ WriteLabel \/ WriteCli \/ WriteDummy \/ WriteVector
    \/ WriteJmp
    \/ Close \/ Rerun

Spec == Init /\ [][Next]_vars

-----------------------------------------------------------------------------
(* Reading isr.asm back, the way an assembler reads it: bytes to lines,    *)
(* lines to words, words to statements.                                    *)

Char(s, k) == SubSeq(s, k, k)

\* the least member of a non-empty set of positions
Least(S) == CHOOSE j \in S : \A m \in S : j <= m

\* the first position >= k of s that holds c, or Len(s) + 1
Scan(s, k, c) ==
    LET hits == {j \in k..Len(s) : Char(s, j) = c}
    IN  IF hits = {} THEN Len(s) + 1 ELSE Least(hits)

\* the first position >= k of s that does not hold c, or Len(s) + 1
Skip(s, k, c) ==
    LET hits == {j \in k..Len(s) : Char(s, j) # c}
    IN  IF hits = {} THEN Len(s) + 1 ELSE Least(hits)

\* 1, 2, ..., n
UpTo(n) == [k \in 1..n |-> k]

\* the newline-terminated lines of s, without the newline
Lines(s) ==
    LET IsNewline(k) == Char(s, k) = "\n"
        nl == SelectSeq(UpTo(Len(s)), IsNewline)
    IN  [j \in 1..Len(nl) |->
            SubSeq(s, IF j = 1 THEN 1 ELSE nl[j - 1] + 1, nl[j] - 1)]

\* a line without its comment
Code(line) == SubSeq(line, 1, Scan(line, 1, ";") - 1)

\* the space-separated words of t from position k on
RECURSIVE WordsFrom(_, _)
WordsFrom(t, k) ==
    LET b == Skip(t, k, " ")
        e == Scan(t, b, " ")
    IN  IF b > Len(t) THEN <<>>
        ELSE <<SubSeq(t, b, e - 1)>> \o WordsFrom(t, e)

Words(line) == WordsFrom(Code(line), 1)

IsDigit(c) == c \in {"0", "1", "2", "3", "4", "5", "6", "7", "8", "9"}

DigitVal(c) ==
    CASE c = "0" -> 0 [] c = "1" -> 1 [] c = "2" -> 2 [] c = "3" -> 3
      [] c = "4" -> 4 [] c = "5" -> 5 [] c = "6" -> 6 [] c = "7" -> 7
      [] c = "8" -> 8 [] c = "9" -> 9

IsNumber(w) == Len(w) > 0 /\ \A k \in 1..Len(w) : IsDigit(Char(w, k))

\* the value of a decimal literal
RECURSIVE ParseInt(_)
ParseInt(w) ==
    IF Len(w) = 1 THEN DigitVal(w)
    ELSE 10 * ParseInt(SubSeq(w, 1, Len(w) - 1)) + DigitVal(Char(w, Len(w)))

IsPush(line) ==
    LET w == Words(line)
    IN  Len(w) = 3 /\ w[1] = "push" /\ w[2] = "byte" /\ IsNumber(w[3])

PushValue(line) == ParseInt(Words(line)[3])

IsJmp(line) == LET w == Words(line) IN Len(w) = 2 /\ w[1] = "jmp"

JmpTarget(line) == Words(line)[2]

IsCli(line) == Words(line) = <<"cli">>

IsLabel(line) ==
    LET w == Words(line)
    IN  Len(w) = 1 /\ Len(w[1]) > 1 /\ Char(w[1], Len(w[1])) = ":"

LabelName(line) == LET w == Words(line)[1] IN SubSeq(w, 1, Len(w) - 1)

IsGlobal(line) == LET w == Words(line) IN Len(w) = 2 /\ w[1] = "global"

GlobalName(line) == Words(line)[2]

\* N when sym is isr<N> with N written without leading zeros, else -1
IsrIndex(sym) ==
    LET d == SubSeq(sym, 4, Len(sym))
    IN  IF Len(sym) > 3 /\ SubSeq(sym, 1, 3) = "isr" /\ IsNumber(d)
           /\ (Len(d) = 1 \/ Char(d, 1) # "0")
        THEN ParseInt(d) ELSE -1

\* the position of the first line of ls equal to l, or Len(ls) + 1
LineIndex(ls, l) ==
    LET hits == {k \in 1..Len(ls) : ls[k] = l}
    IN  IF hits = {} THEN Len(ls) + 1 ELSE Least(hits)

\* the positions after `from` where a run of non-blank lines of ls starts
RunStarts(ls, from) ==
    LET IsStart(k) == k > from /\ ls[k] # "" /\ ls[k - 1] = ""
    IN  SelectSeq(UpTo(Len(ls)), IsStart)

\* the run of non-blank lines of ls that starts at position k
RunAt(ls, k) ==
    LET blanks == {j \in k..Len(ls) : ls[j] = ""}
    IN  SubSeq(ls, k, IF blanks = {} THEN Len(ls) ELSE Least(blanks) - 1)

DefsMark == "; ISR definitions"

\* the Stub Records: the blank-line separated groups after that line
RecordStarts(ls) == RunStarts(ls, LineIndex(ls, DefsMark))

Records(s) ==
    LET ls == Lines(s)
        st == RecordStarts(ls)
    IN  [j \in 1..Len(st) |-> RunAt(ls, st[j])]

\* the positions of the `global` declarations among the lines ls, ascending
GlobalPositions(ls) ==
    LET Declares(k) == IsGlobal(ls[k])
    IN  SelectSeq(UpTo(Len(ls)), Declares)

\* the symbols the document exports, in the order it declares them
Globals(s) ==
    LET ls == Lines(s)
        gp == GlobalPositions(ls)
    IN  [k \in 1..Len(gp) |-> GlobalName(ls[gp[k]])]

\* the names of the labels the document defines, in order
Labels(s) ==
    LET d == SelectSeq(Lines(s), IsLabel)
    IN  [k \in 1..Len(d) |-> LabelName(d[k])]

\* the vector a Stub Record is for: by its label, or by the comment that
\* heads the two hand-written records
RecordVector(rec) ==
    IF IsLabel(rec[1]) THEN IsrIndex(LabelName(rec[1]))
    ELSE IF rec[1] = "; Divide by 0" THEN 0
    ELSE IF rec[1] = "; Double Fault Exception" THEN 8
    ELSE -1

\* the values a record pushes, in order
Pushes(rec) ==
    LET p == SelectSeq(rec, IsPush)
    IN  [k \in 1..Len(p) |-> PushValue(p[k])]

Vectors == 0..31

\* the finished document of the current run
Finished == pc = "done"

\* the positions of the records of recs that are for vector n
RecordsFor(recs, n) == {k \in 1..Len(recs) : RecordVector(recs[k]) = n}

\* the statement that ends a record
LastLine(rec) == rec[Len(rec)]

-----------------------------------------------------------------------------
(* Properties *)

\* the vectors on which the CPU itself pushes an error-code word on entry
ErrorCodeVectors == {8, 10, 11, 12, 13, 14}

\* sample values of the error-code word the CPU pushes
ErrorWords == {0, 5}

\* the words above the hardware frame once the pushes of rec, the stub of
\* vector n, have run; e is the error word the CPU pushes if it pushes one
StackAtJump(rec, n, e) ==
    LET p == Pushes(rec)
    IN  (IF n \in ErrorCodeVectors THEN <<[by |-> "cpu", val |-> e]>> ELSE <<>>)
        \o [k \in 1..Len(p) |-> [by |-> "stub", val |-> p[k]]]

\* C1. Stack shape: in the finished document, for every vector N in 0..31,
\* with the CPU pushing an error word exactly on 8, 10..14, the stub of N
\* leaves exactly two words above the hardware frame: an error-code slot
\* (the CPU's word or a pushed 0) beneath the word the stub pushed last.
C1_StackShape ==
    Finished =>
        LET recs == Records(file)
        IN  \A n \in Vectors : \A k \in RecordsFor(recs, n) : \A e \in ErrorWords :
                LET st == StackAtJump(recs[k], n, e)
                IN  /\ Len(st) = 2
                    /\ st[2].by = "stub"
                    /\ \/ st[1] = [by |-> "cpu", val |-> e]
                       \/ st[1] = [by |-> "stub", val |-> 0]

C1_Witness ==
    /\ Finished
    /\ LET recs == Records(file)
       IN  /\ RecordsFor(recs, 14) # {} /\ RecordsFor(recs, 7) # {}
           /\ \A k \in RecordsFor(recs, 14) :
                StackAtJump(recs[k], 14, 5)
                    = <<[by |-> "cpu", val |-> 5], [by |-> "stub", val |-> 14]>>
           /\ \A k \in RecordsFor(recs, 7) :
                StackAtJump(recs[k], 7, 5)
                    = <<[by |-> "stub", val |-> 0], [by |-> "stub", val |-> 7]>>

\* C2. EISR exactness: in the finished document the stub of every N in
\* {8, 10..14} has one push only, and the stub of every other N in 0..31 has
\* exactly two, the first of them pushing 0.
C2_EisrExact ==
    Finished =>
        LET recs == Records(file)
        IN  \A n \in Vectors : \A k \in RecordsFor(recs, n) :
                LET p == Pushes(recs[k])
                IN  IF n \in ErrorCodeVectors
                    THEN Len(p) = 1
                    ELSE Len(p) = 2 /\ p[1] = 0

C2_Witness ==
    /\ Finished
    /\ LET recs == Records(file)
       IN  /\ \E k \in RecordsFor(recs, 13) : Pushes(recs[k]) = <<13>>
           /\ \E k \in RecordsFor(recs, 9) : Pushes(recs[k]) = <<0, 9>>
           /\ \E k \in RecordsFor(recs, 8) : Len(Pushes(recs[k])) = 1

\* C3 as stated. Two explicit pushes: in the finished document the stub of
\* every N in 0..31 holds exactly two push instructions.
C3_TwoPushes ==
    Finished =>
        LET recs == Records(file)
        IN  \A n \in Vectors : \A k \in RecordsFor(recs, n) :
                Len(Pushes(recs[k])) = 2

\* the positions of the push instructions of a record
PushPositions(rec) == {j \in 1..Len(rec) : IsPush(rec[j])}

\* C3 as amended. In the finished document the push instructions of the stub
\* of every N in 0..31 are the lines right before the record's last line, and
\* there are two of them when N is not in {8, 10..14} and one when it is.
C3_PushCount ==
    Finished =>
        LET recs == Records(file)
        IN  \A n \in Vectors : \A k \in RecordsFor(recs, n) :
                LET w == IF n \in ErrorCodeVectors THEN 1 ELSE 2
                    m == Len(recs[k])
                IN  PushPositions(recs[k]) = (m - w)..(m - 1)

C3_Witness ==
    /\ Finished
    /\ LET recs == Records(file)
       IN  /\ \E k \in RecordsFor(recs, 0) : Cardinality(PushPositions(recs[k])) = 2
           /\ \E k \in RecordsFor(recs, 10) : Cardinality(PushPositions(recs[k])) = 1
           /\ \E k \in RecordsFor(recs, 31) : Cardinality(PushPositions(recs[k])) = 2

\* C4. Completeness: the finished document declares 32 symbols and holds 32
\* Stub Records; every N in 0..31 has exactly one `global isr<N>` line and
\* exactly one record, and no declaration or record is for another index.
C4_Complete ==
    Finished =>
        LET g == Globals(file)
            recs == Records(file)
        IN  /\ Len(g) = 32
            /\ Len(recs) = 32
            /\ \A n \in Vectors :
                /\ Cardinality({k \in 1..Len(g) : IsrIndex(g[k]) = n}) = 1
                /\ Cardinality(RecordsFor(recs, n)) = 1
            /\ \A k \in 1..Len(g) : IsrIndex(g[k]) \in Vectors
            /\ \A k \in 1..Len(recs) : RecordVector(recs[k]) \in Vectors

C4_Witness ==
    /\ Finished
    /\ LET g == Globals(file)
           recs == Records(file)
       IN  /\ \E k \in 1..Len(g) : g[k] = "isr31"
           /\ \E k \in 1..Len(g) : g[k] = "isr0"
           /\ RecordsFor(recs, 0) # {} /\ RecordsFor(recs, 8) # {}
           /\ RecordsFor(recs, 31) # {}

\* C5. Dispatch jump: in the finished document the last statement of the
\* Stub Record of every N in 0..31 is a jmp whose operand is isr_common_stub.
C5_DispatchJump ==
    Finished =>
        LET recs == Records(file)
        IN  \A n \in Vectors : \A k \in RecordsFor(recs, n) :
                /\ IsJmp(LastLine(recs[k]))
                /\ JmpTarget(LastLine(recs[k])) = "isr_common_stub"

\* C6. Symbol contract: in the finished document every N in 0..31 other than
\* 0 and 8 has its label isr<N>: defined exactly once, as the first line of
\* its record and before that record's cli and pushes; every label defined
\* is a symbol the document declares global; and the labels defined are
\* exactly the isr<N> with N in 0..31 other than 0 and 8.
C6_SymbolContract ==
    Finished =>
        LET lb == Labels(file)
            g == Globals(file)
            recs == Records(file)
        IN  /\ \A n \in Vectors \ {0, 8} :
                /\ Cardinality({k \in 1..Len(lb) : IsrIndex(lb[k]) = n}) = 1
                /\ \E k \in 1..Len(recs) :
                    /\ IsLabel(recs[k][1])
                    /\ IsrIndex(LabelName(recs[k][1])) = n
                    /\ \E j \in 2..Len(recs[k]) : IsCli(recs[k][j])
                    /\ \A j \in 2..Len(recs[k]) : ~IsLabel(recs[k][j])
                    /\ \A j \in PushPositions(recs[k]) : j > 1
            /\ \A k \in 1..Len(lb) : \E j \in 1..Len(g) : g[j] = lb[k]
            /\ {IsrIndex(lb[k]) : k \in 1..Len(lb)} = Vectors \ {0, 8}

C6_Witness ==
    /\ Finished
    /\ LET lb == Labels(file)
       IN  /\ Len(lb) = 30
           /\ \E k \in 1..Len(lb) : lb[k] = "isr1"
           /\ \E k \in 1..Len(lb) : lb[k] = "isr31"
           /\ \A k \in 1..Len(lb) : lb[k] \notin {"isr0", "isr8"}

\* C7. Ordering: in the finished document the k-th `global` declaration is
\* that of isr<k-1>, the k-th Stub Record is that of vector k-1, and every
\* declaration line comes before the first line of the first Stub Record.
C7_Ordering ==
    Finished =>
        LET ls == Lines(file)
            gp == GlobalPositions(ls)
            st == RecordStarts(ls)
            recs == Records(file)
        IN  /\ \A k \in 1..Len(gp) : IsrIndex(GlobalName(ls[gp[k]])) = k - 1
            /\ \A k \in 1..Len(recs) : RecordVector(recs[k]) = k - 1
            /\ \A k \in 1..Len(gp) : \A j \in 1..Len(st) : gp[k] < st[j]

C7_Witness ==
    /\ Finished
    /\ LET ls == Lines(file)
           gp == GlobalPositions(ls)
           st == RecordStarts(ls)
       IN  /\ Len(gp) > 1 /\ Len(st) > 1
           /\ GlobalName(ls[gp[1]]) = "isr0"
           /\ GlobalName(ls[gp[Len(gp)]]) = "isr31"
           /\ gp[Len(gp)] < st[1]

\* C8. Sink lifecycle: whenever a statement after open() and up to close()
\* is about to run the handle is open, and when the run has ended, normally
\* or by an exception, the handle is not left open.
C8_SinkLifecycle ==
    /\ pc \notin {"open", "done", "raised"} => of = "open"
    /\ pc \in {"done", "raised"} => of # "open"

\* C9. Determinism: every run that reaches close() leaves the same bytes in
\* isr.asm, whatever the file held when the run started.
C9_Deterministic ==
    \A a \in 1..Len(docs) : \A b \in 1..Len(docs) : docs[a] = docs[b]

C9_Witness ==
    /\ Len(docs) >= 2
    /\ run >= 2
    /\ docs[1] = docs[2]
    /\ Len(docs[1]) > 0

\* the value of the last push of a record
VectorLiteral(rec) == LET p == Pushes(rec) IN p[Len(p)]

\* C10. Vector-number literal: in the finished document the last push of the
\* stub of every N in 0..31 other than 0 and 8 pushes N, the stubs of 0 and
\* of 8 both push 0 last, 0 is the only value two stubs push last, and no
\* stub pushes 8 last.
C10_VectorLiteral ==
    Finished =>
        LET recs == Records(file)
        IN  /\ \A n \in Vectors : \A k \in RecordsFor(recs, n) :
                /\ Pushes(recs[k]) # <<>>
                /\ VectorLiteral(recs[k]) = IF n \in {0, 8} THEN 0 ELSE n
            /\ \A a \in 1..Len(recs) : \A b \in 1..Len(recs) :
                a # b /\ VectorLiteral(recs[a]) = VectorLiteral(recs[b])
                    => VectorLiteral(recs[a]) = 0
            /\ \A k \in 1..Len(recs) : VectorLiteral(recs[k]) # 8

C10_Witness ==
    /\ Finished
    /\ LET recs == Records(file)
       IN  /\ \E k \in RecordsFor(recs, 0) : VectorLiteral(recs[k]) = 0
           /\ \E k \in RecordsFor(recs, 8) : VectorLiteral(recs[k]) = 0
           /\ \E k \in RecordsFor(recs, 9) : VectorLiteral(recs[k]) = 9

====
